---- MODULE Spec2Model ----
(***************************************************************************)
(* Model of src/app.py, the Streamlit front end of the Encyclopedia bot.   *)
(*                                                                         *)
(* Streamlit runs the whole script, main(), once per interaction of a      *)
(* browser session; st.session_state is the only state that survives from  *)
(* one run of a session to its next.  Every run rebuilds the corpus, the   *)
(* vector store and the chain (main, lines 70-73), so the chain's          *)
(* ConversationBufferMemory (line 29) is a fresh, empty object in every    *)
(* run, while the three lists 'history', 'generated' and 'past' live in    *)
(* st.session_state.                                                       *)
(*                                                                         *)
(* The text splitter, the embedding model, the FAISS store and the LLM are *)
(* library objects whose code is not part of app.py: the model keeps only  *)
(* what app.py does with them (it builds them, calls the chain, and lets   *)
(* any exception of the call propagate).                                   *)
(***************************************************************************)
EXTENDS Naturals, Sequences, FiniteSets

\* ---------------------------------------------------------------- bounds
\* Successful turns a session may record (caps the length of 'history').
MaxTurns == 2

\* Browser sessions, each with its own st.session_state.
Sessions == {"s1", "s2"}

\* What the user may type in the text_input of line 54 ("" = nothing typed).
Questions == {"", "q1", "q2"}

\* What the LLM may answer.
Answers == {"a1", "a2"}

\* ------------------------------------------------------- program literals
GENERATED_GREETING == "Hey! Ask me about Science Technology & Ethics"
PAST_GREETING == "Hey!"
SessionKeys == {"history", "generated", "past"}

VARIABLES
    keys,          \* keys[s]: the keys present in st.session_state of s
    history,       \* st.session_state['history']: list of (query, answer)
    generated,     \* st.session_state['generated']
    past,          \* st.session_state['past']
    memory,        \* the buffer of the chain's ConversationBufferMemory
    pc,            \* where the script run of session s stands
    query,         \* conversation_chat's parameter `query`
    result,        \* result["answer"] of the chain call
    promptHistory, \* the chat_history the chain works with in this call
    lastError,     \* the exception that ended the session's last run
    okLog,         \* ghost: the (question, answer) of every chain call that returned
    histAtCall     \* ghost: 'history' as it was when the last chain call began

vars == <<keys, history, generated, past, memory, pc, query, result,
          promptHistory, lastError, okLog, histAtCall>>

\* The chain's state as the orchestration sees it.
ChainState(s) ==
    CASE pc[s] = "retrieving" -> "Retrieving"
      [] pc[s] = "generating" -> "Generating"
      [] OTHER -> "Idle"

\* A session is at rest when no script run of it is under way.
AtRest(s) == pc[s] = "idle"

Init ==
    /\ keys = [s \in Sessions |-> {}]
    /\ history = [s \in Sessions |-> <<>>]
    /\ generated = [s \in Sessions |-> <<>>]
    /\ past = [s \in Sessions |-> <<>>]
    /\ memory = [s \in Sessions |-> <<>>]
    /\ pc = [s \in Sessions |-> "idle"]
    /\ query = [s \in Sessions |-> ""]
    /\ result = [s \in Sessions |-> ""]
    /\ promptHistory = [s \in Sessions |-> <<>>]
    /\ lastError = [s \in Sessions |-> "none"]
    /\ okLog = [s \in Sessions |-> <<>>]
    /\ histAtCall = [s \in Sessions |-> <<>>]

\* ------------------------------------------------------------- operations

\* create_llm_chain: a new ConversationBufferMemory, empty, is made for the
\* chain of this run.
create_llm_chain == <<>>

\* initialize_session_state: a list is created only when its key is absent.
\* (Variant: 'history' assigned without the test of line 40.)
initialize_history_unconditional(s) == <<>>

initialize_history(s) ==
    IF "history" \in keys[s] THEN history[s] ELSE <<>>

initialize_generated(s) ==
    IF "generated" \in keys[s] THEN generated[s] ELSE <<GENERATED_GREETING>>

initialize_past(s) ==
    IF "past" \in keys[s] THEN past[s] ELSE <<PAST_GREETING>>

\* main, lines 69-75: a script run of session s starts; the corpus, the
\* vector store and the chain are rebuilt and the session state initialised.
Main(s) ==
    /\ pc[s] = "idle"
    /\ memory' = [memory EXCEPT ![s] = create_llm_chain]
    /\ history' = [history EXCEPT ![s] = initialize_history(s)]
    /\ generated' = [generated EXCEPT ![s] = initialize_generated(s)]
    /\ past' = [past EXCEPT ![s] = initialize_past(s)]
    /\ keys' = [keys EXCEPT ![s] = SessionKeys]
    /\ lastError' = [lastError EXCEPT ![s] = "none"]
    /\ histAtCall' = [histAtCall EXCEPT ![s] = <<>>]
    /\ pc' = [pc EXCEPT ![s] = "form"]
    /\ UNCHANGED <<query, result, promptHistory, okLog>>

\* The chain has a memory whose memory_key is "chat_history": the chain takes
\* its chat_history from that memory, whatever the caller passed under the
\* same key (line 34 passes st.session_state['history']).
prep_inputs(mem, passed) == mem

\* display_chat_history, lines 57-58, and conversation_chat, line 34, up to
\* the chain's entry: a non-empty question was sent.
Submit(s) ==
    /\ pc[s] = "form"
    /\ Len(history[s]) < MaxTurns
    /\ \E user_input \in Questions :
         /\ user_input # ""
         /\ query' = [query EXCEPT ![s] = user_input]
    /\ promptHistory' = [promptHistory EXCEPT ![s] = prep_inputs(memory[s], history[s])]
    /\ histAtCall' = [histAtCall EXCEPT ![s] = history[s]]
    /\ pc' = [pc EXCEPT ![s] = "retrieving"]
    /\ UNCHANGED <<keys, history, generated, past, memory, result, lastError, okLog>>

\* display_chat_history, line 57, condition false: the form was not sent, or
\* it was sent with an empty question.
NoSubmit(s) ==
    /\ pc[s] = "form"
    /\ \E submit_button \in BOOLEAN, user_input \in Questions :
         ~(submit_button /\ user_input # "")
    /\ pc' = [pc EXCEPT ![s] = "render"]
    /\ UNCHANGED <<keys, history, generated, past, memory, query, result,
                   promptHistory, lastError, okLog, histAtCall>>

\* (Variant: the exception is caught and its text recorded as the answer.)
RaiseRecordsTurn(s, err) ==
    /\ pc' = [pc EXCEPT ![s] = "idle"]
    /\ lastError' = [lastError EXCEPT ![s] = err]
    /\ history' = [history EXCEPT ![s] = Append(history[s], <<query[s], err>>)]
    /\ query' = [query EXCEPT ![s] = ""]
    /\ promptHistory' = [promptHistory EXCEPT ![s] = <<>>]
    /\ UNCHANGED <<keys, generated, past, memory, result, okLog, histAtCall>>

\* An exception of the chain call leaves conversation_chat at line 34,
\* display_chat_history at line 58 and main at line 76: the run is over.
Raise(s, err) ==
    /\ pc' = [pc EXCEPT ![s] = "idle"]
    /\ lastError' = [lastError EXCEPT ![s] = err]
    /\ query' = [query EXCEPT ![s] = ""]
    /\ promptHistory' = [promptHistory EXCEPT ![s] = <<>>]
    /\ UNCHANGED <<keys, history, generated, past, memory, result, okLog, histAtCall>>

\* The chain call, line 34: the retriever (k = 2) fetches the documents.
RetrieveOk(s) ==
    /\ pc[s] = "retrieving"
    /\ pc' = [pc EXCEPT ![s] = "generating"]
    /\ UNCHANGED <<keys, history, generated, past, memory, query, result,
                   promptHistory, lastError, okLog, histAtCall>>

RetrieveFail(s) ==
    /\ pc[s] = "retrieving"
    /\ Raise(s, "RetrievalError")

\* The chain call, line 34: the LLM answers, the chain saves the turn in its
\* memory and returns result["answer"].
GenerateOk(s) ==
    /\ pc[s] = "generating"
    /\ \E a \in Answers :
         /\ result' = [result EXCEPT ![s] = a]
         /\ memory' = [memory EXCEPT ![s] = Append(memory[s], <<query[s], a>>)]
         /\ okLog' = [okLog EXCEPT ![s] = Append(okLog[s], <<query[s], a>>)]
    /\ pc' = [pc EXCEPT ![s] = "chat_append"]
    /\ UNCHANGED <<keys, history, generated, past, query, promptHistory,
                   lastError, histAtCall>>

\* (Variant: a failed generation is retried from the retrieval.)
GenerateFailRetries(s) ==
    /\ pc[s] = "generating"
    /\ pc' = [pc EXCEPT ![s] = "retrieving"]
    /\ UNCHANGED <<keys, history, generated, past, memory, query, result,
                   promptHistory, lastError, okLog, histAtCall>>

GenerateFail(s) ==
    /\ pc[s] = "generating"
    /\ Raise(s, "GenerationError")

\* (Variant: the turn is assigned to the list instead of appended.)
conversation_chat_overwrite(s) ==
    /\ pc[s] = "chat_append"
    /\ history' = [history EXCEPT ![s] = <<(<<query[s], result[s]>>)>>]
    /\ pc' = [pc EXCEPT ![s] = "display_append"]
    /\ UNCHANGED <<keys, generated, past, memory, query, result, promptHistory,
                   lastError, okLog, histAtCall>>

\* (Variant: the history is one module-level list, not a session's.)
conversation_chat_global(s) ==
    /\ pc[s] = "chat_append"
    /\ history' = [t \in Sessions |-> Append(history[t], <<query[s], result[s]>>)]
    /\ pc' = [pc EXCEPT ![s] = "display_append"]
    /\ UNCHANGED <<keys, generated, past, memory, query, result, promptHistory,
                   lastError, okLog, histAtCall>>

\* conversation_chat, lines 35-36.
conversation_chat(s) ==
    /\ pc[s] = "chat_append"
    /\ history' = [history EXCEPT ![s] = Append(history[s], <<query[s], result[s]>>)]
    /\ pc' = [pc EXCEPT ![s] = "display_append"]
    /\ UNCHANGED <<keys, generated, past, memory, query, result, promptHistory,
                   lastError, okLog, histAtCall>>

\* display_chat_history, lines 59-60.
display_chat_history(s) ==
    /\ pc[s] = "display_append"
    /\ past' = [past EXCEPT ![s] = Append(past[s], query[s])]
    /\ generated' = [generated EXCEPT ![s] = Append(generated[s], result[s])]
    /\ query' = [query EXCEPT ![s] = ""]
    /\ result' = [result EXCEPT ![s] = ""]
    /\ promptHistory' = [promptHistory EXCEPT ![s] = <<>>]
    /\ pc' = [pc EXCEPT ![s] = "render"]
    /\ UNCHANGED <<keys, history, memory, lastError, okLog, histAtCall>>

\* display_chat_history, lines 62-66: past[i] is read for every index of
\* generated, which raises IndexError when past is the shorter list.
Render(s) ==
    /\ pc[s] = "render"
    /\ lastError' = [lastError EXCEPT ![s] =
                        IF Len(past[s]) < Len(generated[s]) THEN "IndexError" ELSE "none"]
    /\ pc' = [pc EXCEPT ![s] = "idle"]
    /\ UNCHANGED <<keys, history, generated, past, memory, query, result,
                   promptHistory, okLog, histAtCall>>

Next ==
    \E s \in Sessions :
        \/ Main(s)
        \/ Submit(s)
        \/ NoSubmit(s)
        \/ RetrieveOk(s)
        \/ RetrieveFail(s)
        \/ GenerateOk(s)
        \/ GenerateFail(s)
        \/ conversation_chat(s)
        \/ display_chat_history(s)
        \/ Render(s)

Spec == Init /\ [][Next]_vars

\* ------------------------------------------------------------ properties

IsPrefix(a, b) == Len(a) <= Len(b) /\ \A i \in 1..Len(a) : a[i] = b[i]

ChainError(s) == lastError[s] \in {"RetrievalError", "GenerationError"}

\* C1: when a turn fails (the chain call raises), the session's history is
\* what it was when the call began, and no entry was added to 'past' or
\* 'generated' either.
FailedTurnLeavesHistory ==
    \A s \in Sessions :
        (AtRest(s) /\ ChainError(s)) =>
            /\ history[s] = histAtCall[s]
            /\ Len(past[s]) = Len(histAtCall[s]) + 1
            /\ Len(generated[s]) = Len(histAtCall[s]) + 1

\* C1 witness: a generation failed in a session that already holds a turn.
FailedTurnWitness ==
    \E s \in Sessions :
        AtRest(s) /\ lastError[s] = "GenerationError" /\ Len(history[s]) = 1

\* C2: the history holds the (question, answer) pairs of exactly the chain
\* calls that returned, in call order, its positions 1..n being the sequence
\* numbers; between the return of the chain (line 34) and the append (line
\* 35) the returned turn is the one still missing.  As the log of returned
\* calls only grows, no recorded turn is ever removed, rewritten or moved.
HistoryIsSuccessfulCalls ==
    \A s \in Sessions :
        IF pc[s] = "chat_append"
        THEN okLog[s] = Append(history[s], <<query[s], result[s]>>)
        ELSE history[s] = okLog[s]

\* C2 witness: two different turns recorded, in the order they were answered.
TwoTurnsWitness ==
    \E s \in Sessions :
        /\ AtRest(s)
        /\ Len(history[s]) = 2
        /\ history[s][1] = <<"q2", "a1">>
        /\ history[s][2] = <<"q1", "a2">>
        /\ history[s] = okLog[s]

\* C3: the chat history the chain works with in a turn is the sequence of
\* the turns recorded before it, in chronological order (so the second
\* turn's prompt carries the first turn's pair).
PromptCarriesEarlierTurns ==
    \A s \in Sessions :
        ChainState(s) # "Idle" => promptHistory[s] = history[s]

\* C8: the chain of a session moves only Idle -> Retrieving -> Generating ->
\* Idle; a failure in Retrieving or Generating goes straight to Idle with the
\* error set and nothing recorded; Retrieving is entered only from Idle, with
\* a non-empty question.
ChainStepAllowed(s) ==
    LET a == ChainState(s)
        b == ChainState(s)'
        failed(err) == /\ pc'[s] = "idle"
                       /\ lastError'[s] = err
                       /\ history'[s] = history[s]
                       /\ generated'[s] = generated[s]
                       /\ past'[s] = past[s]
    IN  \/ a = b /\ (a = "Idle" \/ UNCHANGED <<pc[s], query[s], promptHistory[s]>>)
        \/ a = "Idle" /\ b = "Retrieving" /\ pc[s] = "form" /\ query'[s] # ""
        \/ a = "Retrieving" /\ b = "Generating" /\ query'[s] = query[s]
        \/ a = "Retrieving" /\ b = "Idle" /\ failed("RetrievalError")
        \/ a = "Generating" /\ b = "Idle" /\ failed("GenerationError")
        \/ a = "Generating" /\ b = "Idle" /\ pc'[s] = "chat_append"
                                          /\ result'[s] \in Answers

OtherSessionsUntouched(s) ==
    pc'[s] # pc[s] =>
        \A t \in Sessions \ {s} :
            /\ history'[t] = history[t]
            /\ past'[t] = past[t]
            /\ generated'[t] = generated[t]
            /\ memory'[t] = memory[t]
            /\ promptHistory'[t] = promptHistory[t]
            /\ keys'[t] = keys[t]

OwnTurnsOnly ==
    \A s \in Sessions :
        /\ IsPrefix(history[s], okLog[s])
        /\ IsPrefix(promptHistory[s], okLog[s])
        /\ IsPrefix(memory[s], okLog[s]) \/ memory[s] = <<okLog[s][Len(okLog[s])]>>

SessionIsolation ==
    /\ []OwnTurnsOnly
    /\ [][\A s \in Sessions : OtherSessionsUntouched(s)]_vars

\* C9 witness: two sessions with different histories, one of them mid-turn.
TwoSessionsWitness ==
    \E s, t \in Sessions :
        /\ s # t
        /\ Len(history[s]) = 1
        /\ Len(history[t]) = 2
        /\ history[t][1] # history[s][1]
        /\ ChainState(s) = "Generating"

\* C10: once initialised, the three lists of a session stay in lockstep,
\* len(past) = len(generated) = len(history) + 1, except between line 58 and
\* line 60 of a successful turn; at rest each holds one entry per returned
\* chain call beside the greeting (nothing is reset, nothing is added by a
\* failed turn), the keys are created together, and the chain is never
\* invoked with an empty question.
SessionListsInLockstep ==
    \A s \in Sessions :
        /\ keys[s] \in {{}, SessionKeys}
        /\ (keys[s] = SessionKeys /\ pc[s] # "display_append") =>
              /\ Len(past[s]) = Len(generated[s])
              /\ Len(generated[s]) = Len(history[s]) + 1
        /\ (keys[s] = SessionKeys /\ AtRest(s)) =>
              Len(past[s]) = Len(okLog[s]) + 1
        /\ ChainState(s) # "Idle" => query[s] # ""
        /\ lastError[s] # "IndexError"

\* C10 witness: a session at rest after two successful turns and a clean run.
LockstepWitness ==
    \E s \in Sessions :
        /\ AtRest(s)
        /\ lastError[s] = "none"
        /\ Len(past[s]) = 3
        /\ past[s][1] = PAST_GREETING
        /\ generated[s][1] = GENERATED_GREETING
        /\ past[s][3] \in Questions \ {""}
====
